---- MODULE Spec2Model ----
(***************************************************************************)
(* Model of sftplib: SFTPPath (sftplib/core.py) on top of Connection       *)
(* (sftplib/connection.py).                                                *)
(*                                                                         *)
(* A text is a sequence of one-character strings.  A path value is a       *)
(* record [parts, conn, cred]: parts is pathlib's _parts (a sequence of    *)
(* texts, the root "/" being its own first part), conn is the index of the *)
(* Connection in sessions (None when absent) and cred names the credential *)
(* mapping stored on the path.                                             *)
(***************************************************************************)
EXTENDS Integers, Sequences, FiniteSets, TLC

VARIABLES paths, sessions, ret, scope

vars == <<paths, sessions, ret, scope>>

\* ---------------------------------------------------------------- bounds
MaxSessions == 2
MaxParts == 2
MaxText == 3

\* ------------------------------------------------------------- constants
None == 0
SEP == "/"
DOT == "."
NoCred == "empty"
UserCred == "user"

\* ------------------------------------------------------------ text tools
Last(s) == s[Len(s)]

Front(s) == SubSeq(s, 1, Len(s) - 1)

\* str.lstrip("/")
RECURSIVE lstrip(_)
lstrip(t) == IF t # <<>> /\ Head(t) = SEP THEN lstrip(Tail(t)) ELSE t

\* str.rfind("."), 0-based, -1 when absent
rfind(t) ==
    LET hits == {i \in 1..Len(t) : t[i] = DOT}
    IN IF hits = {} THEN -1 ELSE (CHOOSE i \in hits : \A j \in hits : j <= i) - 1

\* str.split("/"): the pieces between separators, empty pieces included
RECURSIVE split(_)
split(t) ==
    LET seps == {i \in 1..Len(t) : t[i] = SEP}
    IN IF seps = {} THEN <<t>>
       ELSE LET i == CHOOSE k \in seps : \A j \in seps : k <= j
            IN <<SubSeq(t, 1, i - 1)>> \o split(SubSeq(t, i + 1, Len(t)))

\* str.split("/", 1): at most one cut
split1(t) ==
    LET seps == {i \in 1..Len(t) : t[i] = SEP}
    IN IF seps = {} THEN <<t>>
       ELSE LET i == CHOOSE k \in seps : \A j \in seps : k <= j
            IN <<SubSeq(t, 1, i - 1), SubSeq(t, i + 1, Len(t))>>

\* "/".join(parts)
RECURSIVE join(_)
join(ps) ==
    IF ps = <<>> THEN <<>>
    ELSE IF Len(ps) = 1 THEN ps[1]
    ELSE ps[1] \o <<SEP>> \o join(Tail(ps))

\* ------------------------------------------------- pathlib (base class)
\* _PosixFlavour.splitroot: [root, rel]
splitroot(part) ==
    IF part # <<>> /\ Head(part) = SEP
    THEN LET stripped == lstrip(part)
         IN IF Len(part) - Len(stripped) = 2
            THEN [root |-> <<SEP, SEP>>, rel |-> stripped]
            ELSE [root |-> <<SEP>>, rel |-> stripped]
    ELSE [root |-> <<>>, rel |-> part]

IsRoot(part) == part # <<>> /\ \A i \in 1..Len(part) : part[i] = SEP

HasRoot(parts) == parts # <<>> /\ IsRoot(parts[1])

\* the non-empty, non-"." pieces of one argument
Pieces(rel) == SelectSeq(split(rel), LAMBDA x : x # <<>> /\ x # <<DOT>>)

\* _Flavour.parse_parts: arguments are read right to left, an argument
\* with a root discards everything to its left
RECURSIVE parse_parts(_)
parse_parts(args) ==
    IF args = <<>> THEN <<>>
    ELSE LET part == Last(args)
             sr == splitroot(part)
         IN IF part = <<>> THEN parse_parts(Front(args))
            ELSE IF sr.root # <<>> THEN <<sr.root>> \o Pieces(sr.rel)
            ELSE parse_parts(Front(args)) \o Pieces(sr.rel)

\* PurePath.name
name(parts) ==
    IF Len(parts) = (IF HasRoot(parts) THEN 1 ELSE 0) THEN <<>> ELSE Last(parts)

\* PurePath.suffix
suffix(parts) ==
    LET n == name(parts)
        i == rfind(n)
    IN IF 0 < i /\ i < Len(n) - 1 THEN SubSeq(n, i + 1, Len(n)) ELSE <<>>

\* PurePath.__str__ (super().__str__())
base_str(parts) ==
    IF parts = <<>> THEN <<DOT>>
    ELSE IF HasRoot(parts) THEN parts[1] \o join(Tail(parts))
    ELSE join(parts)

\* PurePath.parent
base_parent(parts) ==
    IF Len(parts) = 1 /\ HasRoot(parts) THEN parts
    ELSE IF parts = <<>> THEN <<>>
    ELSE Front(parts)

\* PurePath.parents: nearest ancestor first
base_parents(parts) ==
    LET n == IF HasRoot(parts) THEN Len(parts) - 1 ELSE Len(parts)
    IN [i \in 1..n |-> SubSeq(parts, 1, Len(parts) - i)]


\* ------------------------------------------------------------- Connection
\* what the transport does when Connection.open runs
OpenOutcomes == {"ok", "connect_fail", "sftp_fail"}

\* Connection.__init__: a transport that is not connected, client = None.
\* opens counts the calls of open on this Connection.  The credentials the
\* Connection is given (host, cred) decide nothing it does later; connect
\* reports them in its result.
Connection(host, cred) == [ssh |-> "new", client |-> "none", opens |-> 0]

\* Connection.open: ssh.connect, then client = ssh.open_sftp().  When
\* connect raises the transport is not connected; when open_sftp raises the
\* transport stays connected, nothing in open closes it.
Connection_open(s, oc) ==
    LET t == [s EXCEPT !.opens = @ + 1]
    IN IF oc = "connect_fail"
       THEN [sess |-> t, err |-> "ConnectionError"]
       ELSE IF oc = "sftp_fail"
       THEN [sess |-> [t EXCEPT !.ssh = "connected"], err |-> "ConnectionError"]
       ELSE [sess |-> [t EXCEPT !.ssh = "connected", !.client = "open"],
             err |-> "none"]

\* Connection.close: client.close(), then ssh.close()
Connection_close(s) ==
    IF s.client = "none"
    THEN [sess |-> s, err |-> "AttributeError"]
    ELSE [sess |-> [s EXCEPT !.client = "closed", !.ssh = "closed"],
          err |-> "none"]

\* a call of a primitive on conn.client: no client, a closed channel, or the
\* primitive's own outcome po ("none" or "RemoteError")
client_call(s, po) ==
    IF s.client = "none" THEN "AttributeError"
    ELSE IF s.client = "closed" THEN "ChannelClosed"
    ELSE po

\* --------------------------------------------------------------- SFTPPath
\* SFTPPath(*args, conn=conn, **credentials)
SFTPPath(args, c, cred) == [parts |-> parse_parts(args), conn |-> c, cred |-> cred]

\* SFTPPath.hostname
hostname(x) == split1(base_str(x.parts))[1]

\* SFTPPath.key
key(x) ==
    LET sp == split1(base_str(x.parts))
        k == IF Len(sp) > 1 THEN sp[2] ELSE <<>>
    IN IF suffix(x.parts) = <<>> THEN k \o <<SEP>> ELSE k

\* SFTPPath.__str__
str(x) == <<"s", "f", "t", "p", ":", SEP, SEP>> \o base_str(x.parts)

\* what a call on path x gives back: x itself (its conn may have been
\* cached), the Connections, the error raised ("none": returned normally),
\* and what the call observed: built, the credentials every Connection it
\* constructed was given; prim, what the remote primitive did ("notcalled"
\* when it was not reached); nlist, the number of listing calls; listing,
\* the names listed, and lkey, the key it listed; value, text and out, the
\* truth value, the text and the paths returned; arg, the text argument.
Result(x, ss, built, err, prim) ==
    [self |-> x, sessions |-> ss, built |-> built, err |-> err, prim |-> prim,
     nlist |-> 0, listing |-> <<>>, lkey |-> <<>>, value |-> FALSE,
     text |-> <<>>, out |-> <<>>, arg |-> <<>>]

\* SFTPPath.__connect: the new Connection is stored before it is opened
connect(x, ss, oc) ==
    LET r == Connection_open(Connection(hostname(x), x.cred), oc)
    IN Result([x EXCEPT !.conn = Len(ss) + 1], Append(ss, r.sess),
              <<[hostname |-> hostname(x), cred |-> x.cred]>>, r.err, "notcalled")

\* conn that opens a new Connection when the cached one has been closed
conn_reconnect(x, ss, oc) ==
    IF x.conn = None \/ ss[x.conn].ssh = "closed" THEN connect(x, ss, oc)
    ELSE Result(x, ss, <<>>, "none", "notcalled")

\* conn that does not look at the cached Connection
conn_nocache(x, ss, oc) == connect(x, ss, oc)

\* SFTPPath.conn
conn(x, ss, oc) ==
    IF x.conn = None THEN connect(x, ss, oc)
    ELSE Result(x, ss, <<>>, "none", "notcalled")

\* self.conn.client.<primitive>(...): c is what self.conn gave, po what the
\* primitive does when it is reached
remote(c, po) ==
    IF c.err # "none" THEN c
    ELSE LET e == client_call(c.sessions[c.self.conn], po)
         IN [c EXCEPT !.err = e,
                      !.prim = IF e = "AttributeError" THEN "notcalled" ELSE e]

\* PurePath.__truediv__ (_make_child)
base_truediv(parts, k) ==
    LET kp == parse_parts(<<k>>)
    IN IF HasRoot(kp) THEN kp ELSE parts \o kp

\* truediv that composes onto the parent of the path
truediv_sibling(x, k) ==
    SFTPPath(base_truediv(base_parent(x.parts), lstrip(k)), x.conn, x.cred)

\* truediv that does not strip the operand
truediv_nostrip(x, k) == SFTPPath(base_truediv(x.parts, k), x.conn, x.cred)

\* SFTPPath.__truediv__
truediv(x, k) == SFTPPath(base_truediv(x.parts, lstrip(k)), x.conn, x.cred)

\* SFTPPath.parent
parent(x) == SFTPPath(base_parent(x.parts), x.conn, NoCred)

\* SFTPPath.parents
parents(x) ==
    LET bp == base_parents(x.parts)
    IN [i \in 1..Len(bp) |-> SFTPPath(bp[i], x.conn, NoCred)]

\* iterdir whose children get the Connection the path had before the listing
iterdir_oldconn(x, ss, oc, lo) ==
    LET r == remote(conn(x, ss, oc), lo.err)
    IN [r EXCEPT
          !.nlist = IF r.prim = "notcalled" THEN 0 ELSE 1,
          !.lkey = IF r.prim = "notcalled" THEN <<>> ELSE key(r.self),
          !.listing = IF r.err = "none" THEN lo.names ELSE <<>>,
          !.out = IF r.err = "none"
                  THEN [i \in 1..Len(lo.names) |->
                          SFTPPath(r.self.parts \o <<lo.names[i]>>, x.conn, NoCred)]
                  ELSE <<>>]

\* SFTPPath.iterdir, run to exhaustion.  lo = [err, names] is what the
\* listing primitive does.
iterdir(x, ss, oc, lo) ==
    LET r == remote(conn(x, ss, oc), lo.err)
    IN [r EXCEPT
          !.nlist = IF r.prim = "notcalled" THEN 0 ELSE 1,
          !.lkey = IF r.prim = "notcalled" THEN <<>> ELSE key(r.self),
          !.listing = IF r.err = "none" THEN lo.names ELSE <<>>,
          !.out = IF r.err = "none"
                  THEN [i \in 1..Len(lo.names) |->
                          SFTPPath(r.self.parts \o <<lo.names[i]>>, r.self.conn, NoCred)]
                  ELSE <<>>]

\* SFTPPath.exists: self in {parent for path in self.parent.iterdir()
\*                                  for parent in path.parents}
exists(x, ss, oc, lo) ==
    LET r == iterdir(parent(x), ss, oc, lo)
        anc == UNION {{parents(r.out[i])[j].parts : j \in 1..Len(parents(r.out[i]))} :
                      i \in 1..Len(r.out)}
    IN [r EXCEPT !.self = x, !.out = <<>>,
                 !.value = r.err = "none" /\ x.parts \in anc]

\* is_file without the early return for a path with no suffix
is_file_nocheck(x, ss, oc, lo) ==
    LET r == iterdir(parent(x), ss, oc, lo)
    IN [r EXCEPT !.self = x, !.out = <<>>,
                 !.value = r.err = "none" /\
                           \E i \in 1..Len(r.out) : r.out[i].parts = x.parts]

\* is_file that lists the path itself instead of its parent
is_file_listself(x, ss, oc, lo) ==
    IF suffix(x.parts) = <<>>
    THEN Result(x, ss, <<>>, "none", "notcalled")
    ELSE LET r == iterdir(x, ss, oc, lo)
         IN [r EXCEPT !.out = <<>>,
                      !.value = r.err = "none" /\
                                \E i \in 1..Len(r.out) : r.out[i].parts = x.parts]

\* SFTPPath.is_file
is_file(x, ss, oc, lo) ==
    IF suffix(x.parts) = <<>>
    THEN Result(x, ss, <<>>, "none", "notcalled")
    ELSE LET r == iterdir(parent(x), ss, oc, lo)
         IN [r EXCEPT !.self = x, !.out = <<>>,
                      !.value = r.err = "none" /\
                                \E i \in 1..Len(r.out) : r.out[i].parts = x.parts]

\* SFTPPath.unlink
unlink(x, ss, oc, po) == remote(conn(x, ss, oc), po)

\* rmdir that removes the remote entry at key
rmdir_remove(x, ss) == remote(conn(x, ss, "ok"), "none")

\* SFTPPath.rmdir
rmdir(x, ss) == Result(x, ss, <<>>, "NotImplementedError", "notcalled")

\* SFTPPath.close
close(x, ss) ==
    IF x.conn # None
    THEN LET r == Connection_close(ss[x.conn])
         IN Result(x, [ss EXCEPT ![x.conn] = r.sess], <<>>, r.err, "notcalled")
    ELSE Result(x, ss, <<>>, "none", "notcalled")

\* the buffer of SFTPPath.open: what was fetched into it, as what it is
\* handed out ("rb": the BytesIO, "r": a TextIOWrapper around it), whether it
\* is closed
NoBuffer == [data |-> "none", mode |-> "none", closed |-> FALSE]

\* open that catches the error of the fetch and yields what was written
open_swallow(x, ss, oc, fo, mode) ==
    IF mode \notin {"rb", "r"}
    THEN [res |-> Result(x, ss, <<>>, "AssertionError", "notcalled"),
          yielded |-> FALSE, buf |-> NoBuffer]
    ELSE LET r == remote(conn(x, ss, oc), fo.err)
             caught == r.prim = "RemoteError"
         IN [res |-> IF caught THEN [r EXCEPT !.err = "none"] ELSE r,
             yielded |-> r.err = "none" \/ caught,
             buf |-> IF r.err = "none" \/ caught
                     THEN [data |-> fo.data, mode |-> mode, closed |-> FALSE]
                     ELSE NoBuffer]

\* SFTPPath.open up to its yield (__enter__ of the context manager); fo =
\* [err, data] is what the fetch primitive does.  The buffer is a local of
\* the generator until it is yielded.
open(x, ss, oc, fo, mode) ==
    IF mode \notin {"rb", "r"}
    THEN [res |-> Result(x, ss, <<>>, "AssertionError", "notcalled"),
          yielded |-> FALSE, buf |-> NoBuffer]
    ELSE LET r == remote(conn(x, ss, oc), fo.err)
         IN [res |-> r,
             yielded |-> r.err = "none",
             buf |-> IF r.err = "none"
                     THEN [data |-> fo.data, mode |-> mode, closed |-> FALSE]
                     ELSE NoBuffer]

\* SFTPPath.open after its yield (__exit__ of the context manager): the
\* generator is resumed, or thrown into, at the yield and ends; nothing
\* follows the yield
open_exit(buf, how) == buf

\* ------------------------------------------------------------ environment
H == <<"h">>
A == <<"a">>
B == <<"b">>
BT == <<"b", DOT, "t">>
HX == <<"h", DOT, "x">>

\* the arguments the root path is constructed from
RootArgs == {<<H, A>>}

\* the right-hand operands of /
Segs == {BT, <<SEP, "a">>}

\* what the listing primitive can do: fail, or return entry names
ListOutcomes ==
    {[err |-> "RemoteError", names |-> <<>>]} \cup
    {[err |-> "none", names |-> n] : n \in {<<A, B>>, <<A, BT>>}}

\* what the fetch primitive can do: fail after writing, or write the file
FetchOutcomes ==
    {[err |-> "RemoteError", data |-> "part"], [err |-> "none", data |-> "file"]}

PrimOutcomes == {"none", "RemoteError"}

Modes == {"rb", "r", "w"}

\* the last call, on the path at index p, and what it gave back
Ret(op, p, r) ==
    [op |-> op, self |-> p, err |-> r.err, value |-> r.value, out |-> r.out,
     listing |-> r.listing, nlist |-> r.nlist, built |-> r.built, prim |-> r.prim,
     lkey |-> r.lkey, text |-> r.text, arg |-> r.arg]

NoRet ==
    [op |-> "none", self |-> 0, err |-> "none", value |-> FALSE, out |-> <<>>,
     listing |-> <<>>, nlist |-> 0, built |-> <<>>, prim |-> "notcalled",
     lkey |-> <<>>, text |-> <<>>, arg |-> <<>>]

\* the with statement around open: idle, in the caller's block, or left
NoScope == [state |-> "idle", how |-> "none", buf |-> NoBuffer]

P == DOMAIN paths

\* the transport is consulted only when x must build its Connection
Opens(x) == IF x.conn = None THEN OpenOutcomes ELSE {"ok"}

\* one call at a time: the caller takes the result of a call (Keep, Discard)
\* before it makes the next one
Idle == ret.op = "none"

\* the call on the path at index p gave r
Returns(op, p, r) ==
    /\ Len(r.sessions) <= MaxSessions
    /\ paths' = [paths EXCEPT ![p] = r.self]
    /\ sessions' = r.sessions
    /\ ret' = Ret(op, p, r)

\* ------------------------------------------------------------------- Init
Init ==
    /\ \E args \in RootArgs : paths = <<SFTPPath(args, None, UserCred)>>
    /\ sessions = <<>>
    /\ ret = NoRet
    /\ scope = NoScope

\* ---------------------------------------------------------------- actions
\* the caller holds the root path and one more path variable, which it binds
\* (again) to one of the paths the last call produced
Keep(i) ==
    /\ i \in DOMAIN ret.out
    /\ Len(ret.out[i].parts) <= MaxParts
    /\ paths' = <<paths[1], ret.out[i]>>
    /\ ret' = NoRet
    /\ UNCHANGED <<sessions, scope>>

\* the caller drops the result of the last call
Discard ==
    /\ ret.op # "none"
    /\ scope.state # "inblock"
    /\ ret' = NoRet
    /\ scope' = NoScope
    /\ UNCHANGED <<paths, sessions>>

\* p / k
Truediv(p, k) ==
    /\ Idle
    /\ Returns("truediv", p,
               [Result(paths[p], sessions, <<>>, "none", "notcalled")
                  EXCEPT !.out = <<truediv(paths[p], k)>>, !.arg = k])
    /\ UNCHANGED scope

\* p.parent
Parent(p) ==
    /\ Idle
    /\ Returns("parent", p,
               [Result(paths[p], sessions, <<>>, "none", "notcalled")
                  EXCEPT !.out = <<parent(paths[p])>>])
    /\ UNCHANGED scope

\* p.parents
Parents(p) ==
    /\ Idle
    /\ Returns("parents", p,
               [Result(paths[p], sessions, <<>>, "none", "notcalled")
                  EXCEPT !.out = parents(paths[p])])
    /\ UNCHANGED scope

\* list(p.iterdir())
Iterdir(p) ==
    /\ Idle
    /\ \E oc \in Opens(paths[p]), lo \in ListOutcomes :
          Returns("iterdir", p, iterdir(paths[p], sessions, oc, lo))
    /\ UNCHANGED scope

\* p.exists()
Exists(p) ==
    /\ Idle
    /\ \E oc \in Opens(paths[p]), lo \in ListOutcomes :
          Returns("exists", p, exists(paths[p], sessions, oc, lo))
    /\ UNCHANGED scope

\* p.is_file()
IsFile(p) ==
    /\ Idle
    /\ \E oc \in Opens(paths[p]), lo \in ListOutcomes :
          Returns("is_file", p, is_file(paths[p], sessions, oc, lo))
    /\ UNCHANGED scope

\* p.unlink()
Unlink(p) ==
    /\ Idle
    /\ \E oc \in Opens(paths[p]), po \in PrimOutcomes :
          Returns("unlink", p, unlink(paths[p], sessions, oc, po))
    /\ UNCHANGED scope

\* p.close()
Close(p) ==
    /\ Idle
    /\ Returns("close", p, close(paths[p], sessions))
    /\ UNCHANGED scope

\* p.rmdir()
Rmdir(p) ==
    /\ Idle
    /\ Returns("rmdir", p, rmdir(paths[p], sessions))
    /\ UNCHANGED scope

\* with p.open(mode) as f: the caller's block is entered when open yields
Open(p, mode) ==
    /\ Idle
    /\ \E oc \in Opens(paths[p]), fo \in FetchOutcomes :
          LET o == open(paths[p], sessions, oc, fo, mode)
          IN /\ Returns("open", p, o.res)
             /\ scope' = IF o.yielded
                         THEN [state |-> "inblock", how |-> "none", buf |-> o.buf]
                         ELSE NoScope

\* the caller's block ends, normally or by raising
ExitBlock(how) ==
    /\ scope.state = "inblock"
    /\ scope' = [state |-> "exited", how |-> how, buf |-> open_exit(scope.buf, how)]
    /\ ret' = [ret EXCEPT !.op = "exit",
                          !.err = IF how = "failure" THEN "BlockError" ELSE "none"]
    /\ UNCHANGED <<paths, sessions>>

Next ==
    \/ \E i \in DOMAIN ret.out : Keep(i)
    \/ Discard
    \/ \E p \in P, k \in Segs : Truediv(p, k)
    \/ \E p \in P : Parent(p)
    \/ \E p \in P : Parents(p)
    \/ \E p \in P : Iterdir(p)
    \/ \E p \in P : Exists(p)
    \/ \E p \in P : IsFile(p)
    \/ \E p \in P : Unlink(p)
    \/ \E p \in P : Close(p)
    \/ \E p \in P : Rmdir(p)
    \/ \E p \in P, mode \in Modes : Open(p, mode)
    \/ \E how \in {"normal", "failure"} : ExitBlock(how)

Spec == Init /\ [][Next]_vars

\* ------------------------------------------------- the path functions
\* The functions of a path that touch no Connection (/, parent, key, str and
\* construction from str), applied to one path constructed from arguments
\* and to every text operand up to MaxText characters.
Chars == {"a", DOT, SEP}

Texts == UNION {[1..n -> Chars] : n \in 0..MaxText}

\* SFTPPath(*args, **credentials): a host, then zero or more segments
PathArgs == {<<H>>, <<HX>>, <<H, A>>, <<H, BT>>, <<HX, A>>, <<H, A, BT>>}

InitPath ==
    /\ \E args \in PathArgs : paths = <<SFTPPath(args, None, UserCred)>>
    /\ sessions = <<>>
    /\ ret = NoRet
    /\ scope = NoScope

\* SFTPPath(str(p), **credentials)
Reconstruct(p) ==
    /\ Idle
    /\ Returns("construct", p,
               [Result(paths[p], sessions, <<>>, "none", "notcalled")
                  EXCEPT !.out = <<SFTPPath(<<str(paths[p])>>, None, paths[p].cred)>>,
                         !.arg = str(paths[p])])
    /\ UNCHANGED scope

\* p.key
Key(p) ==
    /\ Idle
    /\ Returns("key", p,
               [Result(paths[p], sessions, <<>>, "none", "notcalled")
                  EXCEPT !.text = key(paths[p])])
    /\ UNCHANGED scope

NextPath ==
    \/ Discard
    \/ \E p \in P, k \in Texts : Truediv(p, k)
    \/ \E p \in P : Parent(p)
    \/ \E p \in P : Reconstruct(p)
    \/ \E p \in P : Key(p)

SpecPath == InitPath /\ [][NextPath]_vars

\* ----------------------------------------------------------------- claims
\* a step that is a call (not Keep, Discard or the end of a with block)
IsCall == ret.op = "none" /\ ret'.op # "none"

\* the path at index p holds a Connection that has been closed
HoldsClosed(p) == paths[p].conn # None /\ sessions[paths[p].conn].ssh = "closed"

\* C1: the paths derived from the root reference the root's Session, so the
\* paths the caller holds never reference two different Sessions, whether
\* they were derived before or after the root's first network operation.
C1_SharedSession ==
    \A p, q \in DOMAIN paths :
        (paths[p].conn # None /\ paths[q].conn # None) => paths[p].conn = paths[q].conn

\* C2: exists() returns true for a path whose last segment is among the names
\* the listing of its parent returned, and false for one whose last segment is
\* not among them.
C2_ExistsIffListed ==
    (ret.op = "exists" /\ ret.err = "none") =>
        (ret.value <=>
            \E i \in DOMAIN ret.listing : ret.listing[i] = name(paths[ret.self].parts))

\* C3: a path produced by /, parent or parents that has no Session attached
\* holds the credential mapping of the path it was derived from.
C3_KeepsCredentials ==
    ret.op \in {"truediv", "parent", "parents"} =>
        \A i \in DOMAIN ret.out :
            ret.out[i].conn = None => ret.out[i].cred = paths[ret.self].cred

\* C4: once the caller's block has been left, normally or by a failure, the
\* buffer open handed out is closed.
C4_BufferReleased == scope.state = "exited" => scope.buf.closed

\* C5: once a Session is closed it stays as it is (it is not opened again), a
\* path that references it goes on referencing it, and a call on such a path
\* that needs the connection creates no Session and fails.
C5_NoReconnect ==
    [][\A p \in DOMAIN paths :
          (HoldsClosed(p) /\ IsCall) =>
              /\ sessions'[paths[p].conn] = sessions[paths[p].conn]
              /\ paths'[p].conn = paths[p].conn
              /\ (/\ ret'.self = p
                  /\ \/ ret'.op \in {"iterdir", "exists", "unlink", "open"}
                     \/ ret'.op = "is_file" /\ suffix(paths[p].parts) # <<>>)
                 => (ret'.err # "none" /\ Len(sessions') = Len(sessions))]_vars

\* a call that needs the connection was made on a path that references a
\* closed Session, and it failed on the closed channel
C5_Witness ==
    /\ ret.op \in {"iterdir", "exists", "unlink", "open", "is_file"}
    /\ ret.err = "ChannelClosed"
    /\ paths[ret.self].conn # None
    /\ sessions[paths[ret.self].conn].ssh = "closed"

\* C6: when Connection.open fails, the Session it was called on is left with
\* its transport not connected and with no sub-channel handle.
C6_NoPartialState ==
    ret.err = "ConnectionError" =>
        /\ sessions[Len(sessions)].ssh # "connected"
        /\ sessions[Len(sessions)].client = "none"

\* C7: in every state of a Session the sub-channel exists if and only if the
\* transport is connected (they come into being and are released together).
C7_ChannelIffTransport ==
    \A s \in DOMAIN sessions :
        (sessions[s].client = "open") <=> (sessions[s].ssh = "connected")

\* C8: when the fetch primitive fails during open, the error reaches the
\* caller, the caller's block is not entered and no buffer is handed out.
C8_FetchFailure ==
    (ret.op = "open" /\ ret.prim = "RemoteError") =>
        /\ ret.err = "RemoteError"
        /\ scope.state = "idle"
        /\ scope.buf = NoBuffer

\* the fetch primitive was reached by open and failed
C8_Witness == ret.op = "open" /\ ret.prim = "RemoteError" /\ ret.built # <<>>

\* C9: the first iterdir, open or unlink of a path with no Session builds one
\* Session from the path's hostname and credentials, opens it once and caches
\* it on the path; every later call on the path leaves that Session cached,
\* builds none and opens none.
C9_ConnCached ==
    [][\A p \in DOMAIN paths :
          IsCall =>
              /\ paths[p].conn # None => paths'[p].conn = paths[p].conn
              /\ (ret'.self = p /\ ret'.op \in {"iterdir", "unlink", "open"}) =>
                    IF paths[p].conn # None
                    THEN /\ Len(sessions') = Len(sessions)
                         /\ sessions'[paths[p].conn].opens = sessions[paths[p].conn].opens
                         /\ ret'.built = <<>>
                    ELSE \/ ret'.err = "AssertionError"
                         \/ /\ Len(sessions') = Len(sessions) + 1
                            /\ paths'[p].conn = Len(sessions')
                            /\ sessions'[paths'[p].conn].opens = 1
                            /\ ret'.built = <<[hostname |-> hostname(paths[p]),
                                               cred |-> paths[p].cred]>>]_vars

\* the root, whose Session only its own accessor can have attached, made a
\* later call that reached the remote primitive with the cached Session
C9_Witness ==
    /\ ret.op \in {"iterdir", "unlink", "open"}
    /\ ret.self = 1
    /\ ret.built = <<>>
    /\ ret.prim = "none"
    /\ paths[1].conn # None
    /\ sessions[paths[1].conn].opens = 1

\* C10: is_file() on a path with no suffix returns false, raises nothing,
\* calls no listing, builds and opens no Session and changes nothing.
C10_NoSuffixNoNetwork ==
    [][(IsCall /\ ret'.op = "is_file" /\ suffix(paths[ret'.self].parts) = <<>>) =>
          /\ ret'.value = FALSE
          /\ ret'.err = "none"
          /\ ret'.nlist = 0
          /\ ret'.prim = "notcalled"
          /\ ret'.built = <<>>
          /\ sessions' = sessions
          /\ paths' = paths]_vars

\* is_file() was called on a path with no suffix that has no Session
\* attached, while an open Session exists on another path
C10_Witness ==
    /\ ret.op = "is_file"
    /\ suffix(paths[ret.self].parts) = <<>>
    /\ paths[ret.self].conn = None
    /\ \E s \in DOMAIN sessions : sessions[s].client = "open"

\* C11: is_file() on a path with a suffix that returns, returns true if and
\* only if the path is its parent extended by one of the names the listing of
\* the parent returned, and it has listed once, the parent's key.
C11_IsFileIffChild ==
    (ret.op = "is_file" /\ suffix(paths[ret.self].parts) # <<>> /\ ret.err = "none") =>
        /\ ret.nlist = 1
        /\ ret.lkey = key(parent(paths[ret.self]))
        /\ ret.value <=>
              \E i \in DOMAIN ret.listing :
                  parse_parts(base_parent(paths[ret.self].parts) \o <<ret.listing[i]>>)
                      = paths[ret.self].parts

\* is_file() returned true for a path with a suffix
C11_Witness ==
    /\ ret.op = "is_file"
    /\ suffix(paths[ret.self].parts) # <<>>
    /\ ret.err = "none"
    /\ ret.value

\* C12: iterdir() on p that returns has listed once, the directory at p.key,
\* and has produced, in the order of the listing, one path per name: p
\* extended by that name, referencing p's Session; in a top-level directory
\* the key of the child for a name with no suffix is the name followed by /.
C12_IterdirChildren ==
    (ret.op = "iterdir" /\ ret.err = "none") =>
        /\ ret.nlist = 1
        /\ ret.lkey = key(paths[ret.self])
        /\ Len(ret.out) = Len(ret.listing)
        /\ \A i \in DOMAIN ret.out :
              /\ ret.out[i].parts = paths[ret.self].parts \o <<ret.listing[i]>>
              /\ ret.out[i].conn # None
              /\ ret.out[i].conn = paths[ret.self].conn
              /\ (Len(paths[ret.self].parts) = 1 /\ suffix(<<ret.listing[i]>>) = <<>>)
                    => key(ret.out[i]) = ret.listing[i] \o <<SEP>>

\* iterdir() on a top-level directory, whose Session it had to build, listed
\* the names a and b
C12_Witness ==
    /\ ret.op = "iterdir"
    /\ ret.err = "none"
    /\ ret.built # <<>>
    /\ Len(paths[ret.self].parts) = 1
    /\ ret.listing = <<A, B>>
    /\ key(ret.out[1]) = <<"a", SEP>>
    /\ key(ret.out[2]) = <<"b", SEP>>

\* C13: rmdir() raises NotImplementedError whatever the state of the path,
\* builds and opens no Session, calls no remote primitive, changes nothing.
C13_RmdirUnsupported ==
    [][(IsCall /\ ret'.op = "rmdir") =>
          /\ ret'.err = "NotImplementedError"
          /\ ret'.built = <<>>
          /\ ret'.prim = "notcalled"
          /\ ret'.nlist = 0
          /\ sessions' = sessions
          /\ paths' = paths]_vars

\* rmdir() was called on a path that holds an open Session, while the other
\* path holds none and a closed Session exists
C13_Witness ==
    /\ ret.op = "rmdir"
    /\ paths[ret.self].conn # None
    /\ sessions[paths[ret.self].conn].client = "open"
    /\ \E q \in DOMAIN paths : paths[q].conn = None
    /\ \E s \in DOMAIN sessions : sessions[s].client = "closed"

\* the segments of a key: its non-empty pieces between separators
Segments(k) == SelectSeq(split(k), LAMBDA x : x # <<>>)

\* a text of one or more segments, none empty and none ".", joined by single
\* separators: no leading or trailing "/", no "//"
IsPlain(t) ==
    t # <<>> /\ \A i \in DOMAIN split(t) : split(t)[i] # <<>> /\ split(t)[i] # <<DOT>>

\* C14: the parent of every path, a path of a hostname only included, has
\* the hostname of the path, and its key is the key of the path with the
\* last segment removed.
C14_ParentKeepsHost ==
    ret.op = "parent" =>
        /\ hostname(ret.out[1]) = hostname(paths[ret.self])
        /\ Segments(key(ret.out[1])) = Front(Segments(key(paths[ret.self])))

\* C15 as stated: for every path p and every text s that does not start
\* with /, str(p / s) is str(p), then /, then s, and p / s has p's hostname.
C15_Original ==
    (ret.op = "truediv" /\ (ret.arg = <<>> \/ Head(ret.arg) # SEP)) =>
        /\ str(ret.out[1]) = str(paths[ret.self]) \o <<SEP>> \o ret.arg
        /\ hostname(ret.out[1]) = hostname(paths[ret.self])

\* C15, amended: p / s has p's hostname for every text s; str(p / s) is
\* str(p), then /, then s when s is one or more segments, none empty and
\* none ".", joined by single separators; for any other s that does not
\* start with / the empty and "." segments of s are dropped, and str(p / s)
\* is str(p) followed by / and each segment that is left.
C15_Compose ==
    (ret.op = "truediv" /\ (ret.arg = <<>> \/ Head(ret.arg) # SEP)) =>
        /\ hostname(ret.out[1]) = hostname(paths[ret.self])
        /\ IsPlain(ret.arg) =>
              str(ret.out[1]) = str(paths[ret.self]) \o <<SEP>> \o ret.arg
        /\ str(ret.out[1]) = str(SFTPPath(paths[ret.self].parts \o Pieces(ret.arg),
                                          None, NoCred))

\* p / ".." was composed onto a path with a segment after the host: the
\* result keeps the ".." segment
C15_Witness ==
    /\ ret.op = "truediv"
    /\ ret.arg = <<DOT, DOT>>
    /\ Len(paths[ret.self].parts) > 1
    /\ str(ret.out[1]) = str(paths[ret.self]) \o <<SEP, DOT, DOT>>

\* C16: the path constructed from str(p) has the hostname and the key of p.
C16_StrRoundTrip ==
    ret.op = "construct" =>
        /\ hostname(ret.out[1]) = hostname(paths[ret.self])
        /\ key(ret.out[1]) = key(paths[ret.self])

\* C17: p / s for a text s with a leading / is the path p / s' for s without
\* that /; and for every text s, p / s has p's hostname and p's segments as
\* a prefix of its own.
C17_LeadingSlash ==
    ret.op = "truediv" =>
        /\ (ret.arg # <<>> /\ Head(ret.arg) = SEP) =>
              ret.out[1] = truediv(paths[ret.self], Tail(ret.arg))
        /\ hostname(ret.out[1]) = hostname(paths[ret.self])
        /\ Len(ret.out[1].parts) >= Len(paths[ret.self].parts)
        /\ SubSeq(ret.out[1].parts, 1, Len(paths[ret.self].parts)) = paths[ret.self].parts

\* p / "//a" was composed: the result is p extended by the segment a
C17_Witness ==
    /\ ret.op = "truediv"
    /\ ret.arg = <<SEP, SEP, "a">>
    /\ ret.out[1].parts = paths[ret.self].parts \o <<A>>

\* C18: the key of a path of a hostname only is the empty text; the key of a
\* path with further segments is those segments joined by /, followed by /
\* exactly when the path has no suffix.
C18_Key ==
    ret.op = "key" =>
        ret.text = IF Len(paths[ret.self].parts) = 1 THEN <<>>
                   ELSE join(Tail(paths[ret.self].parts)) \o
                        (IF suffix(paths[ret.self].parts) = <<>> THEN <<SEP>> ELSE <<>>)

\* C19: when the conn accessor of a path returns normally (iterdir and
\* unlink evaluate self.conn first, and raise ConnectionError only when the
\* lazy open inside it failed), the Connection it returned has completed
\* open: its client is set.
C19_ReturnedSessionOpened ==
    (ret.op \in {"iterdir", "unlink"} /\ ret.err # "ConnectionError") =>
        /\ paths[ret.self].conn # None
        /\ sessions[paths[ret.self].conn].client # "none"

\* C20: after close() on the root has returned, every Connection whose open
\* succeeded has been closed.
C20_RootCloseClosesAll ==
    (ret.op = "close" /\ ret.self = 1 /\ ret.err = "none") =>
        \A s \in DOMAIN sessions : sessions[s].client # "open"

====
